---------------------------- MODULE Spec2Model ----------------------------
(***************************************************************************)
(* TimeularManager (QTimeular): the connection life cycle of one Timeular  *)
(* ZEI dice over Bluetooth Low Energy.                                     *)
(*                                                                         *)
(* The manager's fields are the m_* variables.  The Qt Bluetooth objects   *)
(* it drives (the device discovery agent, the low-energy controller and    *)
(* the service object) are the environment: agentActive, ctrlState,        *)
(* ctrlServices, ctrlGen, svcState and deviceHasChar follow the documented *)
(* behaviour of QBluetoothDeviceDiscoveryAgent, QLowEnergyController and   *)
(* QLowEnergyService.  Every action is one signal delivered by Qt (or one  *)
(* call by the application) together with the whole slot that handles it.  *)
(* emitted, calls and last record what the last slot emitted, which        *)
(* requests it made and which slot it was; statusLog is every              *)
(* statusChanged emission since construction.                              *)
(***************************************************************************)
EXTENDS Integers, Sequences, FiniteSets

\* ------------------------------------------------------------------ bounds

\* calls of QBluetoothDeviceDiscoveryAgent::start() since construction
\* (each connection session needs one)
MaxScans == 2

\* ------------------------------------------------------- program constants

\* enum Status
Disconneted == 0
Connecting == 1
Connected == 2

\* enum Orientation: Vertical, the first of Vertical, Face1 .. Face8
Vertical == 0

\* the largest byte value that is a face (the test orientation > 8)
MaxOrientationByte == 8

\* quint8
Byte == 0 .. 255

\* the advertised name the manager looks for
ZeiName == "Timeular ZEI"

\* names a scanned device may advertise
Names == {ZeiName, "Other Dice", "timeular zei", ""}

\* QBluetoothDeviceInfo: coreConfigurations() & LowEnergyCoreConfiguration, name()
DeviceInfos == [le : BOOLEAN, name : Names]

\* zeiOrientationService and some other service of the device
ZeiOrientationService == "c7e70010-c847-11e6-8175-8c89a55d403c"
OtherService == "0000180a-0000-1000-8000-00805f9b34fb"
ServiceUuids == {ZeiOrientationService, OtherService}

\* zeiOrientationCharacteristic and some other characteristic
ZeiOrientationCharacteristic == "c7e70012-c847-11e6-8175-8c89a55d403c"
OtherCharacteristic == "c7e70011-c847-11e6-8175-8c89a55d403c"
CharacteristicUuids == {ZeiOrientationCharacteristic, OtherCharacteristic}

\* the client characteristic configuration descriptor and some other one
CccdUuid == "00002902-0000-1000-8000-00805f9b34fb"
OtherDescriptorUuid == "00002901-0000-1000-8000-00805f9b34fb"

\* QByteArray::fromHex("0000") and QByteArray::fromHex("0100")
DisableNotification == <<0, 0>>
EnableNotification == <<1, 0>>

\* nullptr
NULL == 0

\* a default-constructed QLowEnergyDescriptor
NoDescriptor == [gen |-> 0, uuid |-> ""]

VARIABLES
    m_status,            \* Status m_status
    m_serviceDiscovered, \* bool m_serviceDiscovered
    m_service,           \* QLowEnergyService *m_service (NULL or an object of services)
    m_controller,        \* QLowEnergyController *m_controller (NULL or an object of controllers)
    m_notificationDesc,  \* QLowEnergyDescriptor m_notificationDesc
    m_orientation,       \* Orientation m_orientation
    controllers,         \* the QLowEnergyController objects that exist
    services,            \* the QLowEnergyService objects that exist
    svcCreated,          \* QLowEnergyService objects created so far
    agentActive,         \* m_deviceDiscoveryAgent->isActive()
    scans,               \* calls of m_deviceDiscoveryAgent->start() so far
    ctrlState,           \* m_controller->state()
    ctrlServices,        \* m_controller->services()
    ctrlGen,             \* which service discovery the controller's service data is of
    svcState,            \* state of the orientation service's data in the controller
    deviceHasChar,       \* the discovered service has the orientation characteristic
    deviceHasDesc,       \* and that characteristic has the configuration descriptor
    emitted,             \* signals the last slot emitted
    calls,               \* requests the last slot made to the Bluetooth objects
    last,                \* the last slot run and its arguments
    statusLog,           \* every statusChanged argument since construction
    path                 \* how far the run has followed HappyPath, or Off

vars == <<m_status, m_serviceDiscovered, m_service, m_controller, m_notificationDesc,
          m_orientation, controllers, services, svcCreated, agentActive, scans,
          ctrlState, ctrlServices, ctrlGen, svcState, deviceHasChar, deviceHasDesc, emitted, calls,
          last, statusLog, path>>

\* the manager's own fields
fields == <<m_status, m_serviceDiscovered, m_service, m_controller, m_notificationDesc,
            m_orientation>>

\* the Bluetooth objects' state
environment == <<controllers, services, svcCreated, agentActive, scans, ctrlState,
                 ctrlServices, ctrlGen, svcState, deviceHasChar,
                 deviceHasDesc>>

\* ------------------------------------------------------------ the monitor

\* the successful sequence of slots, from construction
HappyPath == <<"startDiscovery", "deviceDiscovered", "deviceConnected",
               "addLowEnergyService", "serviceScanDone", "serviceStateChanged",
               "serviceStateChanged">>

\* the arguments the successful sequence passes the slot at each step
HappyArg(i) ==
    CASE i = 2 -> [le |-> TRUE, name |-> ZeiName]
      [] i = 4 -> ZeiOrientationService
      [] i = 6 -> [state |-> "DiscoveringServices", hasChar |-> FALSE, hasDesc |-> FALSE]
      [] i = 7 -> [state |-> "ServiceDiscovered", hasChar |-> TRUE, hasDesc |-> TRUE]
      [] OTHER -> <<>>

\* the value of path once the run has left the successful sequence
Off == Len(HappyPath) + 1

\* path after the slot op has run with arguments arg
Follow(op, arg) ==
    path' = IF /\ path < Len(HappyPath)
               /\ HappyPath[path + 1] = op
               /\ (path + 1 \in {2, 4, 6, 7} => HappyArg(path + 1) = arg)
            THEN path + 1
            ELSE Off

\* ---------------------------------------------------------------- signals

\* a request to one of the Bluetooth objects
Call(fn, arg) == [fn |-> fn, arg |-> arg]

StatusChanged(status) == [sig |-> "statusChanged", arg |-> status]
OrientationChanged(orientation) == [sig |-> "orientationChanged", arg |-> orientation]

\* ------------------------------------------------------------------- Init

Init ==
    /\ m_status = Disconneted
    /\ m_serviceDiscovered = FALSE
    /\ m_service = NULL
    /\ m_controller = NULL
    /\ m_notificationDesc = NoDescriptor
    /\ m_orientation = Vertical
    /\ controllers = {}
    /\ services = {}
    /\ svcCreated = 0
    /\ agentActive = FALSE
    /\ scans = 0
    /\ ctrlState = "UnconnectedState"
    /\ ctrlServices = {}
    /\ ctrlGen = 0
    /\ svcState = "InvalidService"
    /\ deviceHasChar = FALSE
    /\ deviceHasDesc = FALSE
    /\ emitted = <<>>
    /\ calls = <<>>
    /\ last = [op |-> "constructor", arg |-> <<>>]
    /\ statusLog = <<>>
    /\ path = 0

\* ----------------------------------------------------------------- slots

\* setStatus(status): assigns and emits only on a change
setStatus(status) ==
    IF status # m_status
    THEN /\ m_status' = status
         /\ emitted' = <<StatusChanged(status)>>
         /\ statusLog' = Append(statusLog, status)
    ELSE /\ UNCHANGED <<m_status, statusLog>>
         /\ emitted' = <<>>

\* startDiscovery() without its test of m_status
startDiscoveryUnguarded(active) ==
    /\ setStatus(Connecting)
    /\ calls' = <<Call("start", "LowEnergyMethod")>>
    /\ agentActive' = TRUE
    /\ scans' = scans + 1

\* startDiscovery() that returns only while Connecting
startDiscoveryFromConnected(active) ==
    IF m_status = Connecting
    THEN /\ UNCHANGED <<m_status, statusLog, scans>>
         /\ emitted' = <<>>
         /\ calls' = <<>>
         /\ agentActive' = active
    ELSE /\ setStatus(Connecting)
         /\ calls' = <<Call("start", "LowEnergyMethod")>>
         /\ agentActive' = TRUE
         /\ scans' = scans + 1

\* startDiscovery(), with the agent active or not when it is called;
\* QBluetoothDeviceDiscoveryAgent::start() does nothing while a scan is active
startDiscovery(active) ==
    IF m_status # Disconneted
    THEN /\ UNCHANGED <<m_status, statusLog, scans>>
         /\ emitted' = <<>>
         /\ calls' = <<>>
         /\ agentActive' = active
    ELSE /\ setStatus(Connecting)
         /\ calls' = <<Call("start", "LowEnergyMethod")>>
         /\ agentActive' = TRUE
         /\ scans' = scans + 1

\* the application calls startDiscovery()
StartDiscovery ==
    /\ m_status = Disconneted => scans < MaxScans
    /\ startDiscovery(agentActive)
    /\ last' = [op |-> "startDiscovery", arg |-> <<>>]
    /\ Follow("startDiscovery", <<>>)
    /\ UNCHANGED <<m_serviceDiscovered, m_service, m_controller, m_notificationDesc,
                   m_orientation, controllers, services, svcCreated, ctrlState,
                   ctrlServices, ctrlGen, svcState, deviceHasChar,
                 deviceHasDesc>>

\* QBluetoothDeviceDiscoveryAgent::finished: the constructor's lambda
ScanFinished ==
    /\ agentActive
    /\ (m_service = NULL /\ m_status = Disconneted) => scans < MaxScans
    /\ IF m_service = NULL
       THEN startDiscovery(FALSE)
       ELSE /\ UNCHANGED <<m_status, statusLog, scans>>
            /\ emitted' = <<>>
            /\ calls' = <<>>
            /\ agentActive' = FALSE
    /\ last' = [op |-> "scanFinished", arg |-> <<>>]
    /\ Follow("scanFinished", <<>>)
    /\ UNCHANGED <<m_serviceDiscovered, m_service, m_controller, m_notificationDesc,
                   m_orientation, controllers, services, svcCreated, ctrlState,
                   ctrlServices, ctrlGen, svcState, deviceHasChar,
                 deviceHasDesc>>

\* deviceDiscovered(info) without the comparison of the name
deviceDiscoveredAnyName(info) ==
    IF m_status # Connecting \/ ~info.le
    THEN /\ calls' = <<>>
         /\ UNCHANGED <<m_controller, controllers, ctrlState>>
    ELSE /\ calls' = <<Call("connectToDevice", "")>>
         /\ IF m_controller = NULL
            THEN /\ m_controller' = Cardinality(controllers) + 1
                 /\ controllers' = controllers \cup {Cardinality(controllers) + 1}
                 /\ ctrlState' = "ConnectingState"
            ELSE /\ UNCHANGED <<m_controller, controllers>>
                 /\ ctrlState' = IF ctrlState = "UnconnectedState"
                                 THEN "ConnectingState"
                                 ELSE ctrlState

\* deviceDiscovered(info) without the test of m_controller: a controller is
\* created for every matching advertisement
deviceDiscoveredNewController(info) ==
    IF m_status # Connecting \/ ~info.le \/ info.name # ZeiName
    THEN /\ calls' = <<>>
         /\ UNCHANGED <<m_controller, controllers, ctrlState>>
    ELSE /\ calls' = <<Call("connectToDevice", "")>>
         /\ m_controller' = Cardinality(controllers) + 1
         /\ controllers' = controllers \cup {Cardinality(controllers) + 1}
         /\ ctrlState' = "ConnectingState"

\* deviceDiscovered(info); QLowEnergyController::connectToDevice() does nothing
\* unless the controller is unconnected
deviceDiscovered(info) ==
    IF m_status # Connecting \/ ~info.le \/ info.name # ZeiName
    THEN /\ calls' = <<>>
         /\ UNCHANGED <<m_controller, controllers, ctrlState>>
    ELSE /\ calls' = <<Call("connectToDevice", "")>>
         /\ IF m_controller = NULL
            THEN /\ m_controller' = Cardinality(controllers) + 1
                 /\ controllers' = controllers \cup {Cardinality(controllers) + 1}
                 /\ ctrlState' = "ConnectingState"
            ELSE /\ UNCHANGED <<m_controller, controllers>>
                 /\ ctrlState' = IF ctrlState = "UnconnectedState"
                                 THEN "ConnectingState"
                                 ELSE ctrlState

\* QBluetoothDeviceDiscoveryAgent::deviceDiscovered, during a scan
DeviceDiscovered ==
    /\ agentActive
    /\ \E info \in DeviceInfos :
          /\ deviceDiscovered(info)
          /\ last' = [op |-> "deviceDiscovered", arg |-> info]
          /\ Follow("deviceDiscovered", info)
    /\ emitted' = <<>>
    /\ UNCHANGED <<m_status, m_serviceDiscovered, m_service, m_notificationDesc,
                   m_orientation, services, svcCreated, agentActive, scans,
                   ctrlServices, ctrlGen, svcState, deviceHasChar, deviceHasDesc,
                   statusLog>>

\* deviceConnected(): discoverServices() starts a new enumeration
deviceConnected ==
    /\ calls' = <<Call("discoverServices", "")>>
    /\ ctrlState' = "DiscoveringState"
    /\ ctrlServices' = {}
    /\ ctrlGen' = ctrlGen + 1
    /\ svcState' = "InvalidService"

\* QLowEnergyController::connected
DeviceConnected ==
    /\ m_controller # NULL
    /\ ctrlState = "ConnectingState"
    /\ deviceConnected
    /\ emitted' = <<>>
    /\ last' = [op |-> "deviceConnected", arg |-> <<>>]
    /\ Follow("deviceConnected", <<>>)
    /\ UNCHANGED <<fields, controllers, services, svcCreated, agentActive, scans,
                   deviceHasChar, deviceHasDesc, statusLog>>

\* addLowEnergyService(serviceUuid)
addLowEnergyService(serviceUuid) ==
    m_serviceDiscovered' = IF serviceUuid = ZeiOrientationService
                           THEN TRUE
                           ELSE m_serviceDiscovered

\* QLowEnergyController::serviceDiscovered, once per service of the device
ServiceDiscovered ==
    /\ m_controller # NULL
    /\ ctrlState = "DiscoveringState"
    /\ \E serviceUuid \in ServiceUuids \ ctrlServices :
          /\ ctrlServices' = ctrlServices \cup {serviceUuid}
          /\ svcState' = IF serviceUuid = ZeiOrientationService
                         THEN "DiscoveryRequired"
                         ELSE svcState
          /\ addLowEnergyService(serviceUuid)
          /\ last' = [op |-> "addLowEnergyService", arg |-> serviceUuid]
          /\ Follow("addLowEnergyService", serviceUuid)
    /\ emitted' = <<>>
    /\ calls' = <<>>
    /\ UNCHANGED <<m_status, m_service, m_controller, m_notificationDesc,
                   m_orientation, controllers, services, svcCreated, agentActive,
                   scans, ctrlState, ctrlGen, deviceHasChar, deviceHasDesc,
                   statusLog>>

\* QLowEnergyController::createServiceObject(uuid): a new object, or nullptr
\* when the controller's service list does not hold uuid
createServiceObject(uuid) ==
    IF uuid \in ctrlServices THEN svcCreated + 1 ELSE NULL

\* serviceScanDone() creating the object of whichever service the controller
\* lists instead of the orientation service
serviceScanDoneAnyService ==
    LET created == IF m_serviceDiscovered /\ ctrlServices # {}
                   THEN svcCreated + 1
                   ELSE NULL
    IN  /\ m_service' = created
        /\ services' = (services \ {m_service}) \cup ({created} \ {NULL})
        /\ svcCreated' = IF created # NULL THEN svcCreated + 1 ELSE svcCreated
        /\ calls' = IF created # NULL THEN <<Call("discoverDetails", "")>> ELSE <<>>
        /\ emitted' = <<>>
        /\ UNCHANGED <<m_status, statusLog>>

\* serviceScanDone() that sets Disconneted when the service is not found
serviceScanDoneDisconnects ==
    LET created == IF m_serviceDiscovered
                   THEN createServiceObject(ZeiOrientationService)
                   ELSE NULL
    IN  /\ m_service' = created
        /\ services' = (services \ {m_service}) \cup ({created} \ {NULL})
        /\ svcCreated' = IF created # NULL THEN svcCreated + 1 ELSE svcCreated
        /\ calls' = IF created # NULL THEN <<Call("discoverDetails", "")>> ELSE <<>>
        /\ IF created # NULL
           THEN emitted' = <<>> /\ UNCHANGED <<m_status, statusLog>>
           ELSE setStatus(Disconneted)

\* serviceScanDone(): the old object is deleted first; discoverDetails()
\* puts the service in DiscoveringServices
serviceScanDone ==
    LET created == IF m_serviceDiscovered
                   THEN createServiceObject(ZeiOrientationService)
                   ELSE NULL
    IN  /\ m_service' = created
        /\ services' = (services \ {m_service}) \cup ({created} \ {NULL})
        /\ svcCreated' = IF created # NULL THEN svcCreated + 1 ELSE svcCreated
        /\ calls' = IF created # NULL THEN <<Call("discoverDetails", "")>> ELSE <<>>
        /\ emitted' = <<>>
        /\ UNCHANGED <<m_status, statusLog>>

\* QLowEnergyController::discoveryFinished
ServiceScanDone ==
    /\ m_controller # NULL
    /\ ctrlState = "DiscoveringState"
    /\ ctrlState' = "DiscoveredState"
    /\ serviceScanDone
    /\ last' = [op |-> "serviceScanDone", arg |-> <<>>]
    /\ Follow("serviceScanDone", <<>>)
    /\ UNCHANGED <<m_serviceDiscovered, m_controller, m_notificationDesc,
                   m_orientation, controllers, agentActive, scans, ctrlServices,
                   ctrlGen, svcState, deviceHasChar, deviceHasDesc>>

\* deviceDisconnected() that keeps the service object
deviceDisconnectedKeepsService ==
    /\ setStatus(Disconneted)
    /\ UNCHANGED <<services, m_service>>

\* deviceDisconnected() that does not set the status
deviceDisconnectedKeepsStatus ==
    /\ emitted' = <<>>
    /\ UNCHANGED <<m_status, statusLog>>
    /\ services' = services \ {m_service}
    /\ m_service' = NULL

\* deviceDisconnected()
deviceDisconnected ==
    /\ setStatus(Disconneted)
    /\ services' = services \ {m_service}
    /\ m_service' = NULL

\* QLowEnergyController::disconnected: the link is gone and the controller
\* has invalidated its services
DeviceDisconnected ==
    /\ m_controller # NULL
    /\ ctrlState \in {"DiscoveringState", "DiscoveredState", "ClosingState"}
    /\ ctrlState' = "UnconnectedState"
    /\ ctrlServices' = {}
    /\ svcState' = "InvalidService"
    /\ deviceDisconnected
    /\ calls' = <<>>
    /\ last' = [op |-> "deviceDisconnected", arg |-> <<>>]
    /\ Follow("deviceDisconnected", <<>>)
    /\ UNCHANGED <<m_serviceDiscovered, m_controller, m_notificationDesc, m_orientation,
                   controllers, svcCreated, agentActive, scans, ctrlGen,
                   deviceHasChar, deviceHasDesc>>

\* errorReceived(error) that gives the connection up
errorReceivedDisconnects(error) ==
    /\ setStatus(Disconneted)
    /\ calls' = <<>>
    /\ UNCHANGED <<m_serviceDiscovered, m_service, m_controller, m_notificationDesc,
                   m_orientation>>

\* errorReceived(error): a warning only
errorReceived(error) ==
    /\ emitted' = <<>>
    /\ calls' = <<>>
    /\ UNCHANGED <<fields, statusLog>>

\* QLowEnergyController::error; a connection attempt that fails leaves the
\* controller unconnected
ErrorReceived ==
    /\ m_controller # NULL
    /\ \E error \in {"ConnectionError", "UnknownError"} :
          /\ ctrlState' = IF error = "ConnectionError" /\ ctrlState = "ConnectingState"
                          THEN "UnconnectedState"
                          ELSE ctrlState
          /\ errorReceived(error)
          /\ last' = [op |-> "errorReceived", arg |-> error]
          /\ Follow("errorReceived", error)
    /\ UNCHANGED <<controllers, services, svcCreated, agentActive, scans, ctrlServices,
                   ctrlGen, svcState, deviceHasChar, deviceHasDesc>>

\* QLowEnergyDescriptor::isValid(): it has data and its service is not invalid
isValid(d) ==
    d.gen # 0 /\ d.gen = ctrlGen /\ svcState # "InvalidService"

\* orientationChar.descriptor(uuid) of the service being discovered
descriptor(uuid, hasDesc) ==
    IF hasDesc THEN [gen |-> ctrlGen, uuid |-> uuid] ELSE NoDescriptor

\* serviceStateChanged(newState) with the test of the descriptor inverted
serviceStateChangedInverted(newState, hasChar, hasDesc) ==
    IF newState # "ServiceDiscovered"
    THEN /\ emitted' = <<>>
         /\ calls' = <<>>
         /\ UNCHANGED <<m_status, statusLog, m_notificationDesc>>
    ELSE IF ~hasChar
         THEN /\ setStatus(Disconneted)
              /\ calls' = <<>>
              /\ UNCHANGED m_notificationDesc
         ELSE /\ m_notificationDesc' = descriptor(CccdUuid, hasDesc)
              /\ IF ~hasDesc
                 THEN /\ setStatus(Connected)
                      /\ calls' = <<Call("writeDescriptor", EnableNotification)>>
                 ELSE /\ setStatus(Disconneted)
                      /\ calls' = <<>>

\* serviceStateChanged(newState) without the test of the descriptor
serviceStateChangedNoDescriptorTest(newState, hasChar, hasDesc) ==
    IF newState # "ServiceDiscovered"
    THEN /\ emitted' = <<>>
         /\ calls' = <<>>
         /\ UNCHANGED <<m_status, statusLog, m_notificationDesc>>
    ELSE IF ~hasChar
         THEN /\ setStatus(Disconneted)
              /\ calls' = <<>>
              /\ UNCHANGED m_notificationDesc
         ELSE /\ m_notificationDesc' = descriptor(CccdUuid, hasDesc)
              /\ setStatus(Connected)
              /\ calls' = <<Call("writeDescriptor", EnableNotification)>>

\* serviceStateChanged(newState), of a service with or without the
\* orientation characteristic and its configuration descriptor
serviceStateChanged(newState, hasChar, hasDesc) ==
    IF newState # "ServiceDiscovered"
    THEN /\ emitted' = <<>>
         /\ calls' = <<>>
         /\ UNCHANGED <<m_status, statusLog, m_notificationDesc>>
    ELSE IF ~hasChar
         THEN /\ setStatus(Disconneted)
              /\ calls' = <<>>
              /\ UNCHANGED m_notificationDesc
         ELSE /\ m_notificationDesc' = descriptor(CccdUuid, hasDesc)
              /\ IF hasDesc
                 THEN /\ setStatus(Connected)
                      /\ calls' = <<Call("writeDescriptor", EnableNotification)>>
                 ELSE /\ setStatus(Disconneted)
                      /\ calls' = <<>>

\* QLowEnergyService::stateChanged of m_service: details discovery begins,
\* completes, or the controller invalidates the service as the link closes
ServiceStateChanged ==
    /\ m_service # NULL
    /\ \E newState \in {"DiscoveringServices", "ServiceDiscovered", "InvalidService"},
          hasChar, hasDesc \in BOOLEAN :
          /\ hasDesc => hasChar
          /\ newState # "ServiceDiscovered" => ~hasChar
          /\ newState = "DiscoveringServices" => svcState = "DiscoveryRequired"
          /\ newState = "ServiceDiscovered" => svcState = "DiscoveringServices"
          /\ newState = "InvalidService" => svcState # "InvalidService"
          /\ svcState' = newState
          /\ IF newState = "InvalidService"
             THEN ctrlState' = "ClosingState" /\ ctrlServices' = {}
             ELSE UNCHANGED <<ctrlState, ctrlServices>>
          /\ IF newState = "ServiceDiscovered"
             THEN deviceHasChar' = hasChar /\ deviceHasDesc' = hasDesc
             ELSE UNCHANGED <<deviceHasChar, deviceHasDesc>>
          /\ serviceStateChanged(newState, hasChar, hasDesc)
          /\ last' = [op |-> "serviceStateChanged",
                      arg |-> [state |-> newState, hasChar |-> hasChar,
                               hasDesc |-> hasDesc]]
          /\ Follow("serviceStateChanged",
                    [state |-> newState, hasChar |-> hasChar, hasDesc |-> hasDesc])
    /\ UNCHANGED <<m_serviceDiscovered, m_service, m_controller, m_orientation,
                   controllers, services, svcCreated, agentActive, scans, ctrlGen>>

\* *reinterpret_cast<const quint8 *>(value.constData()): the first byte; the
\* data of a QByteArray ends with a '\0', which is what an empty one holds
firstByte(value) ==
    IF Len(value) = 0 THEN 0 ELSE value[1]

\* the decoding with the test orientation >= 8
decodeOffByOne(value) ==
    IF firstByte(value) >= MaxOrientationByte THEN Vertical ELSE firstByte(value)

\* the orientation deviceDataChanged() decodes from the payload
decode(value) ==
    IF firstByte(value) > MaxOrientationByte THEN Vertical ELSE firstByte(value)

\* deviceDataChanged(c, value) without the comparison with m_orientation
deviceDataChangedAlwaysEmits(c, value) ==
    IF c # ZeiOrientationCharacteristic
    THEN /\ emitted' = <<>>
         /\ UNCHANGED m_orientation
    ELSE /\ m_orientation' = decode(value)
         /\ emitted' = <<OrientationChanged(decode(value))>>

\* deviceDataChanged(c, value)
deviceDataChanged(c, value) ==
    IF c # ZeiOrientationCharacteristic \/ decode(value) = m_orientation
    THEN /\ emitted' = <<>>
         /\ UNCHANGED m_orientation
    ELSE /\ m_orientation' = decode(value)
         /\ emitted' = <<OrientationChanged(decode(value))>>

\* payloads of a notification: none or one byte
Payloads == {<<>>} \cup {<<b>> : b \in Byte}

\* the payloads the life cycle is explored with: none, both ends of the
\* faces, the first byte past them and the last byte
SamplePayloads == {<<>>, <<0>>, <<1>>, <<8>>, <<9>>, <<255>>}

\* QLowEnergyService::characteristicChanged of m_service, its payload one of
\* payloads
CharacteristicChanged(payloads) ==
    /\ m_service # NULL
    /\ svcState = "ServiceDiscovered"
    /\ \E c \in CharacteristicUuids, value \in payloads :
          /\ c = ZeiOrientationCharacteristic => deviceHasChar
          /\ deviceDataChanged(c, value)
          /\ last' = [op |-> "deviceDataChanged", arg |-> [c |-> c, value |-> value]]
          /\ Follow("deviceDataChanged", [c |-> c, value |-> value])
    /\ calls' = <<>>
    /\ UNCHANGED <<m_status, m_serviceDiscovered, m_service, m_controller,
                   m_notificationDesc, environment, statusLog>>

DeviceDataChanged == CharacteristicChanged(SamplePayloads)

\* confirmedDescriptorWrite(d, value) without the comparison of the value
confirmedDescriptorWriteAnyValue(d, value) ==
    IF isValid(d) /\ d = m_notificationDesc
    THEN /\ calls' = <<Call("disconnectFromDevice", "")>>
         /\ ctrlState' = IF ctrlState = "UnconnectedState" THEN ctrlState ELSE "ClosingState"
         /\ ctrlServices' = {}
         /\ svcState' = "InvalidService"
         /\ services' = services \ {m_service}
         /\ m_service' = NULL
    ELSE /\ calls' = <<>>
         /\ UNCHANGED <<ctrlState, ctrlServices, svcState, services, m_service>>

\* confirmedDescriptorWrite(d, value); disconnectFromDevice() invalidates the
\* controller's services and starts closing the link
confirmedDescriptorWrite(d, value) ==
    IF isValid(d) /\ d = m_notificationDesc /\ value = DisableNotification
    THEN /\ calls' = <<Call("disconnectFromDevice", "")>>
         /\ ctrlState' = IF ctrlState = "UnconnectedState" THEN ctrlState ELSE "ClosingState"
         /\ ctrlServices' = {}
         /\ svcState' = "InvalidService"
         /\ services' = services \ {m_service}
         /\ m_service' = NULL
    ELSE /\ calls' = <<>>
         /\ UNCHANGED <<ctrlState, ctrlServices, svcState, services, m_service>>

\* values a descriptor write may confirm
DescriptorValues == {DisableNotification, EnableNotification, <<0>>, <<0, 1>>}

\* the descriptors of the discovered service, and an invalid one
Descriptors ==
    {NoDescriptor}
        \cup (IF deviceHasDesc THEN {[gen |-> ctrlGen, uuid |-> CccdUuid]} ELSE {})
        \cup (IF deviceHasChar THEN {[gen |-> ctrlGen, uuid |-> OtherDescriptorUuid]} ELSE {})

\* QLowEnergyService::descriptorWritten of m_service
ConfirmedDescriptorWrite ==
    /\ m_service # NULL
    /\ svcState = "ServiceDiscovered"
    /\ \E d \in Descriptors, value \in DescriptorValues :
          /\ confirmedDescriptorWrite(d, value)
          /\ last' = [op |-> "confirmedDescriptorWrite", arg |-> [d |-> d, value |-> value]]
          /\ Follow("confirmedDescriptorWrite", [d |-> d, value |-> value])
    /\ emitted' = <<>>
    /\ UNCHANGED <<m_status, m_serviceDiscovered, m_controller, m_notificationDesc,
                   m_orientation, controllers, svcCreated, agentActive, scans, ctrlGen,
                   deviceHasChar, deviceHasDesc, statusLog>>

Next ==
    \/ StartDiscovery
    \/ ScanFinished
    \/ DeviceDiscovered
    \/ DeviceConnected
    \/ ServiceDiscovered
    \/ ServiceScanDone
    \/ DeviceDisconnected
    \/ ErrorReceived
    \/ ServiceStateChanged
    \/ DeviceDataChanged
    \/ ConfirmedDescriptorWrite

Spec == Init /\ [][Next]_vars

\* ------------------------------------------------- notifications, every byte

\* the state the successful sequence ends in: connected, notifications on
Streaming ==
    /\ m_status = Connected
    /\ m_serviceDiscovered = TRUE
    /\ m_service = 1
    /\ m_controller = 1
    /\ m_notificationDesc = [gen |-> 1, uuid |-> CccdUuid]
    /\ m_orientation = Vertical
    /\ controllers = {1}
    /\ services = {1}
    /\ svcCreated = 1
    /\ agentActive = TRUE
    /\ scans = 1
    /\ ctrlState = "DiscoveredState"
    /\ ctrlServices = {ZeiOrientationService}
    /\ ctrlGen = 1
    /\ svcState = "ServiceDiscovered"
    /\ deviceHasChar = TRUE
    /\ deviceHasDesc = TRUE
    /\ emitted = <<StatusChanged(Connected)>>
    /\ calls = <<Call("writeDescriptor", EnableNotification)>>
    /\ last = [op |-> "serviceStateChanged",
               arg |-> [state |-> "ServiceDiscovered", hasChar |-> TRUE, hasDesc |-> TRUE]]
    /\ statusLog = <<Connecting, Connected>>
    /\ path = Len(HappyPath)

DeviceDataChangedAny == CharacteristicChanged(Payloads)

NextData ==
    \/ DeviceDataChangedAny

\* any sequence of notifications, of any payload, on the connected device
SpecData == Streaming /\ [][NextData]_vars

\* ----------------------------------------------------------------- claims

\* the requests of the last slot that are fn
Requests(cs, fn) == {i \in 1 .. Len(cs) : cs[i].fn = fn}

\* C1: startDiscovery() while Connecting or Connected changes no field and
\* nothing of the Bluetooth objects, emits nothing and requests nothing; while
\* Disconneted it sets Connecting, emits one statusChanged(Connecting) and
\* requests one low-energy scan; and whichever slot requests a scan, it does
\* so from status Disconneted.
C1_StartDiscoveryGuard ==
    [][/\ (last'.op = "startDiscovery" /\ m_status # Disconneted)
            => /\ UNCHANGED <<fields, environment, statusLog>>
               /\ emitted' = <<>>
               /\ calls' = <<>>
       /\ (last'.op = "startDiscovery" /\ m_status = Disconneted)
            => /\ m_status' = Connecting
               /\ emitted' = <<StatusChanged(Connecting)>>
               /\ calls' = <<Call("start", "LowEnergyMethod")>>
               /\ agentActive'
       /\ Requests(calls', "start") # {} => m_status = Disconneted]_vars

\* startDiscovery() was called while connected, to no effect
C1_Witness ==
    /\ last.op = "startDiscovery"
    /\ m_status = Connected
    /\ m_service # NULL
    /\ calls = <<>>
    /\ emitted = <<>>

\* C2: along the successful sequence from construction (startDiscovery,
\* matching device discovered, connected, orientation service reported,
\* service scan done, service details discovered with characteristic and
\* descriptor) the statusChanged emissions are Connecting, then, at its last
\* step, Connected, and the status is never Disconneted after the first step.
C2_HappyPathStatus ==
    /\ path \in 1 .. Len(HappyPath) - 1
          => statusLog = <<Connecting>> /\ m_status = Connecting
    /\ path = Len(HappyPath)
          => statusLog = <<Connecting, Connected>> /\ m_status = Connected

\* the successful sequence has run to its end
C2_Witness ==
    /\ path = Len(HappyPath)
    /\ last.op = "serviceStateChanged"
    /\ last.arg.state = "ServiceDiscovered"
    /\ emitted = <<StatusChanged(Connected)>>

\* C3: after deviceDisconnected() the status is Disconneted, m_service is
\* null and no service object is left.
C3_DisconnectedClears ==
    last.op = "deviceDisconnected"
        => m_status = Disconneted /\ m_service = NULL /\ services = {}

\* the device disconnected while the status was Connected
C3_Witness ==
    /\ last.op = "deviceDisconnected"
    /\ emitted = <<StatusChanged(Disconneted)>>
    /\ Len(statusLog) >= 3
    /\ statusLog[Len(statusLog) - 1] = Connected
    /\ svcCreated >= 1

\* C4: after a notification of the orientation characteristic whose first
\* byte is b, m_orientation is b when b is in 0..8 and Vertical when b is in
\* 9..255.
C4_DecodeClamps ==
    (/\ last.op = "deviceDataChanged"
     /\ last.arg.c = ZeiOrientationCharacteristic
     /\ Len(last.arg.value) >= 1)
        => LET b == last.arg.value[1]
           IN  /\ b \in 0 .. 8 => m_orientation = b
               /\ b \in 9 .. 255 => m_orientation = Vertical

\* a byte past the faces turned a face into Vertical
C4_Witness ==
    /\ last.op = "deviceDataChanged"
    /\ last.arg.c = ZeiOrientationCharacteristic
    /\ last.arg.value = <<200>>
    /\ m_orientation = Vertical
    /\ emitted = <<OrientationChanged(Vertical)>>

\* C5: a notification of the orientation characteristic with first byte b
\* emits orientationChanged, once and with the clamped value, exactly when
\* the clamped value differs from m_orientation as it was; otherwise it emits
\* nothing and leaves m_orientation as it was.
C5_EmitsOnChangeOnly ==
    [][(/\ last'.op = "deviceDataChanged"
        /\ last'.arg.c = ZeiOrientationCharacteristic
        /\ Len(last'.arg.value) >= 1)
          => LET b == last'.arg.value[1]
                 clamped == IF b > 8 THEN 0 ELSE b
             IN  IF clamped # m_orientation
                 THEN emitted' = <<OrientationChanged(clamped)>>
                 ELSE emitted' = <<>> /\ m_orientation' = m_orientation]_vars

\* a byte past the faces arrived while the orientation was Vertical
C5_Witness ==
    /\ last.op = "deviceDataChanged"
    /\ last.arg.c = ZeiOrientationCharacteristic
    /\ last.arg.value = <<9>>
    /\ m_orientation = Vertical
    /\ emitted = <<>>

C7_DisableDisconnects ==
    [][(last'.op = "confirmedDescriptorWrite" /\ m_status = Connected)
          => IF /\ last'.arg.d.uuid = CccdUuid
                /\ last'.arg.value = <<0, 0>>
             THEN /\ calls' = <<Call("disconnectFromDevice", "")>>
                  /\ m_service' = NULL
                  /\ services' = {}
             ELSE /\ calls' = <<>>
                  /\ m_service' = m_service
                  /\ m_status' = m_status]_vars

\* the write of 0x0000 was confirmed while connected
C7_Witness ==
    /\ last.op = "confirmedDescriptorWrite"
    /\ last.arg.d.uuid = CccdUuid
    /\ last.arg.value = DisableNotification
    /\ m_status = Connected
    /\ m_service = NULL
    /\ Len(calls) = 1

\* C8: connectToDevice() is requested, and a controller created, only by
\* deviceDiscovered() with the status Connecting, the low-energy core
\* configuration and the name "Timeular ZEI"; a deviceDiscovered() short of
\* any of the three changes nothing and requests nothing.
C8_AdmissionFilter ==
    [][/\ (Requests(calls', "connectToDevice") # {} \/ controllers' # controllers)
            => /\ last'.op = "deviceDiscovered"
               /\ m_status = Connecting
               /\ last'.arg.le
               /\ last'.arg.name = "Timeular ZEI"
       /\ (/\ last'.op = "deviceDiscovered"
           /\ ~(m_status = Connecting /\ last'.arg.le /\ last'.arg.name = "Timeular ZEI"))
            => /\ UNCHANGED <<fields, environment, statusLog>>
               /\ calls' = <<>>
               /\ emitted' = <<>>]_vars

\* a low-energy device of another name was discovered while connecting
C8_Witness ==
    /\ last.op = "deviceDiscovered"
    /\ last.arg = [le |-> TRUE, name |-> "Other Dice"]
    /\ m_status = Connecting
    /\ m_controller = NULL
    /\ calls = <<>>

\* C9: when the finished slot has run with no controller and no service
\* held, it has requested a new scan.
C9_ScanRestarts ==
    (last.op = "scanFinished" /\ m_controller = NULL /\ m_service = NULL)
        => Requests(calls, "start") # {}

\* C10: at most one controller object and at most one service object exist,
\* and the service object that exists is the one m_service holds.
C10_OneControllerOneService ==
    /\ Cardinality(controllers) <= 1
    /\ Cardinality(services) <= 1
    /\ services \subseteq {m_service}
    /\ controllers \subseteq {m_controller}

\* a matching device is discovered again in a second connect cycle
C10_Witness ==
    /\ last.op = "deviceDiscovered"
    /\ Requests(calls, "connectToDevice") # {}
    /\ scans = 2
    /\ svcCreated >= 1
    /\ Cardinality(controllers) = 1

\* C11: after deviceDisconnected(), and whenever startDiscovery() has
\* requested a scan, none of the controller, the service and the notification
\* descriptor is held.
C11_HandlesReleased ==
    (\/ last.op = "deviceDisconnected"
     \/ Requests(calls, "start") # {})
        => /\ m_controller = NULL
           /\ m_service = NULL
           /\ m_notificationDesc = NoDescriptor

\* C12: after a failure is handled (a controller error, a service scan that
\* ends without the orientation service, a discovered service without the
\* orientation characteristic or without its descriptor) the status is
\* Disconneted.
C12_FailuresDisconnect ==
    (\/ last.op = "errorReceived"
     \/ (last.op = "serviceScanDone" /\ m_service = NULL)
     \/ (/\ last.op = "serviceStateChanged"
         /\ last.arg.state = "ServiceDiscovered"
         /\ ~(last.arg.hasChar /\ last.arg.hasDesc)))
        => m_status = Disconneted

\* C13: serviceStateChanged(ServiceDiscovered) with the characteristic and
\* the descriptor sets Connected and writes 0x0100 to the descriptor once;
\* without either it sets Disconneted and writes nothing; any other state
\* changes nothing; and no other slot writes a descriptor.
C13_EnableNotifications ==
    [][/\ last'.op = "serviceStateChanged"
            => IF last'.arg.state = "ServiceDiscovered"
               THEN IF last'.arg.hasChar /\ last'.arg.hasDesc
                    THEN /\ m_status' = Connected
                         /\ calls' = <<Call("writeDescriptor", <<1, 0>>)>>
                         /\ m_notificationDesc'.uuid = CccdUuid
                    ELSE /\ m_status' = Disconneted
                         /\ calls' = <<>>
               ELSE /\ UNCHANGED <<fields, statusLog>>
                    /\ calls' = <<>>
                    /\ emitted' = <<>>
       /\ Requests(calls', "writeDescriptor") # {}
            => /\ last'.op = "serviceStateChanged"
               /\ last'.arg = [state |-> "ServiceDiscovered", hasChar |-> TRUE,
                               hasDesc |-> TRUE]]_vars

\* the service was discovered with the characteristic, without the descriptor
C13_Witness ==
    /\ last.op = "serviceStateChanged"
    /\ last.arg = [state |-> "ServiceDiscovered", hasChar |-> TRUE, hasDesc |-> FALSE]
    /\ m_status = Disconneted
    /\ emitted = <<StatusChanged(Disconneted)>>
    /\ calls = <<>>

\* C14: the slot that follows deviceDisconnected(), unless it is the
\* application's startDiscovery(), leaves the status Disconneted and requests
\* no scan.
C14_NoAutoRetry ==
    [][(last.op = "deviceDisconnected" /\ last'.op # "startDiscovery")
          => /\ m_status' = Disconneted
             /\ Requests(calls', "start") = {}]_vars

\* C15: errorReceived() changes no field, emits nothing and requests nothing.
C15_ErrorChangesNothing ==
    [][last'.op = "errorReceived"
          => /\ UNCHANGED <<fields, statusLog, agentActive, scans, controllers, services>>
             /\ emitted' = <<>>
             /\ calls' = <<>>]_vars

\* a connection attempt failed: the status is still Connecting
C15_Witness ==
    /\ last.op = "errorReceived"
    /\ last.arg = "ConnectionError"
    /\ m_status = Connecting
    /\ ctrlState = "UnconnectedState"

\* no service is held and the controller has finished its service discovery
ServiceNotFound ==
    m_service = NULL /\ ctrlState = "DiscoveredState"

\* C16: serviceScanDone() with m_serviceDiscovered not set holds no service
\* object, leaves the status as it was and emits nothing; and from there a
\* status of Connecting stays until deviceDisconnected().
C16_ServiceNotFoundKeepsStatus ==
    [][/\ (last'.op = "serviceScanDone" /\ ~m_serviceDiscovered)
            => /\ m_service' = NULL
               /\ services' = {}
               /\ m_status' = m_status
               /\ emitted' = <<>>
               /\ ServiceNotFound'
       /\ (ServiceNotFound /\ m_status = Connecting /\ last'.op # "deviceDisconnected")
            => (ServiceNotFound' /\ m_status' = Connecting)]_vars

\* the first service scan ended without the orientation service
C16_Witness ==
    /\ last.op = "serviceScanDone"
    /\ ~m_serviceDiscovered
    /\ OtherService \in ctrlServices
    /\ m_status = Connecting
    /\ m_service = NULL

\* C17: every change of the status is Disconneted to Connecting, Connecting
\* to Connected, Connecting to Disconneted or Connected to Disconneted.
C17_StatusTransitions ==
    [][m_status' # m_status
          => <<m_status, m_status'>> \in {<<Disconneted, Connecting>>,
                                          <<Connecting, Connected>>,
                                          <<Connecting, Disconneted>>,
                                          <<Connected, Disconneted>>}]_vars

\* the status went from Connecting to Disconneted, then on to Connected in a
\* later session
C17_Witness ==
    /\ Len(statusLog) >= 4
    /\ statusLog[1] = Connecting
    /\ statusLog[2] = Disconneted
    /\ statusLog[Len(statusLog)] = Connected

\* C18: a notification of the orientation characteristic with no bytes
\* leaves m_orientation as it was and emits nothing.
C18_EmptyPayloadNoOp ==
    [][(/\ last'.op = "deviceDataChanged"
        /\ last'.arg.c = ZeiOrientationCharacteristic
        /\ last'.arg.value = <<>>)
          => /\ m_orientation' = m_orientation
             /\ emitted' = <<>>]_vars

\* C19: whenever the status is Disconneted no service is held.
C19_DisconnectedNoService ==
    m_status = Disconneted => m_service = NULL

\* C20: whenever the status is Connected a controller exists, a service is
\* held and the stored notification descriptor is valid.
C20_ConnectedHoldsAll ==
    m_status = Connected
        => /\ m_controller # NULL
           /\ m_service # NULL
           /\ isValid(m_notificationDesc)

\* C20, amended: whenever the status is Connected a controller exists, and
\* unless the controller is closing the link a service is held and the stored
\* notification descriptor is valid.
C20_ConnectedHoldsAllUnlessClosing ==
    m_status = Connected
        => /\ m_controller # NULL
           /\ m_controller \in controllers
           /\ ctrlState \in {"DiscoveredState", "ClosingState"}
           /\ ctrlState # "ClosingState"
                => /\ m_service # NULL
                   /\ m_service \in services
                   /\ isValid(m_notificationDesc)
                   /\ m_notificationDesc.uuid = CccdUuid

\* connected, between the request to disconnect and the disconnected signal
C20_Witness ==
    /\ m_status = Connected
    /\ ctrlState = "ClosingState"
    /\ m_service = NULL
    /\ ~isValid(m_notificationDesc)
    /\ last.op = "confirmedDescriptorWrite"

=============================================================================
